---- MODULE Spec2Model ----
(***************************************************************************)
(* Model of the Google Maps menu scraper: scrape_menu_images               *)
(* (scrape_menu.py) driven by the POST /scrape-menu handler (server.py).   *)
(* One task per HTTP request; every awaited browser operation is one step  *)
(* whose outcome (a value, or an exception) is chosen by the environment.  *)
(***************************************************************************)
EXTENDS Integers, Sequences, FiniteSets, TLC

\* ---------------------------------------------------------------- bounds

\* Scroll heights the page may report are 0..MaxHeight.
MaxHeight == 2
\* At most MaxImgs <img> elements are read from the page.
MaxImgs == 3

\* ------------------------------------------------------ program constants

max_scrolls == 20

\* The two concurrent requests of the serving layer.
Reqs == {1, 2}

Heights == 0..MaxHeight

\* The ordered locator strategies of the Menu tab (role, text, css, css).
selectors == <<"role", "text", "css", "css">>

\* ------------------------------------------------------------------ URLs
\* A string is a sequence of chunks; a URL string is scheme, "://", the
\* host labels joined by ".", then the path and query chunks.

Dom1 == <<"googleusercontent", ".", "com">>
Dom2 == <<"googleapis", ".", "com">>

UrlPhoto == <<"https", "://", "lh3", ".", "googleusercontent", ".", "com", "/", "p1">>
UrlApi == <<"https", "://", "maps", ".", "googleapis", ".", "com", "/", "p2">>
UrlOther == <<"https", "://", "evil", ".", "example", "/", "x">>
UrlQuery == <<"https", "://", "evil", ".", "example", "/", "x", "?", "googleusercontent", ".", "com">>
UrlData == <<"data:", "image/png">>

\* What img.src || img.currentSrc || img.getAttribute('data-src') can be.
RawSrcs == {UrlPhoto, UrlApi, UrlOther, UrlQuery, UrlData}

RECURSIVE SeqsUpTo(_, _)
SeqsUpTo(S, n) ==
    IF n = 0 THEN {<<>>}
    ELSE LET shorter == SeqsUpTo(S, n - 1)
         IN shorter \cup {Append(s, x) : s \in {t \in shorter : Len(t) = n - 1}, x \in S}

\* Python's  pat in text  on strings.
Contains(text, pat) ==
    \E i \in 1..(Len(text) - Len(pat) + 1) : SubSeq(text, i, i + Len(pat) - 1) = pat

\* JS  url && url.startsWith('http')
StartsWithHttp(url) == Len(url) > 0 /\ url[1] \in {"http", "https"}

\* The host of an absolute URL: the chunks between "://" and the first "/".
RECURSIVE HostFrom(_, _)
HostFrom(url, i) ==
    IF i > Len(url) \/ url[i] \in {"/", "?"} THEN <<>>
    ELSE <<url[i]>> \o HostFrom(url, i + 1)

Host(url) == IF Len(url) >= 2 /\ url[2] = "://" THEN HostFrom(url, 3) ELSE <<>>

EndsWith(s, suf) ==
    Len(s) >= Len(suf) /\ SubSeq(s, Len(s) - Len(suf) + 1, Len(s)) = suf

\* The host is one of the two image-hosting domains or a subdomain of one.
HostIn(url, dom) ==
    LET h == Host(url)
    IN h = dom \/ EndsWith(h, <<".">> \o dom)

RecognizedHost(url) == HostIn(url, Dom1) \/ HostIn(url, Dom2)

RECURSIVE SelectSeq2(_, _)
SelectSeq2(s, keep) ==
    IF s = <<>> THEN <<>>
    ELSE (IF keep[Head(s)] THEN <<Head(s)>> ELSE <<>>) \o SelectSeq2(Tail(s), keep)

\* The filter of the page.evaluate script: keep truthy sources starting with http.
JsFilter(raw) == SelectSeq2(raw, [u \in RawSrcs |-> StartsWithHttp(u)])

\* The condition of the list comprehension.
KeepsUrl(url) == Contains(url, Dom1) \/ Contains(url, Dom2)

\* menu_images = [url for url in image_urls if ...]
MenuFilter(image_urls) == SelectSeq2(image_urls, [u \in RawSrcs |-> KeepsUrl(u)])

\* Mutant: the membership test is dropped, every URL is appended.
DedupeStepNoTest(sn, uq, url) == [seen |-> sn \cup {url}, unique_images |-> Append(uq, url)]

\* One iteration of the dedupe loop.
DedupeStep(sn, uq, url) ==
    IF url \notin sn
    THEN [seen |-> sn \cup {url}, unique_images |-> Append(uq, url)]
    ELSE [seen |-> sn, unique_images |-> uq]

\* The whole dedupe loop from seen = set(), unique_images = [].
RECURSIVE DedupeFrom(_, _, _)
DedupeFrom(sn, uq, rest) ==
    IF rest = <<>> THEN uq
    ELSE LET st == DedupeStep(sn, uq, Head(rest))
         IN DedupeFrom(st.seen, st.unique_images, Tail(rest))

Dedupe(L) == DedupeFrom({}, <<>>, L)

\* ----------------------------------------------------------------- state

VARIABLES
    task,              \* per request: the handler's and the scraper's frame
    response,          \* per request: the HTTP response, or NoResponse
    debug_screenshot   \* the file debug_screenshot.png of the working directory

vars == <<task, response, debug_screenshot>>

\* The locals of scrape_menu_images; one that is not bound yet holds 0, [] or
\* set() and is not read. di is the number of elements the dedupe loop has
\* consumed.
Locals ==
    [sel |-> 0,
     scroll_attempt |-> 0, last_height |-> 0, unchanged_count |-> 0,
     current_height |-> 0, new_height |-> 0,
     menu_images |-> <<>>, seen |-> {}, unique_images |-> <<>>, di |-> 0]

\* probe, clicked, cause and close_calls of a task are history too: how the
\* selector loop ended, whether the Menu tab was clicked, the first exception
\* that was not absorbed, and the number of browser.close() calls.
\* History of the scroll loop, kept for the properties only: whether the loop
\* left by its break, the heights read so far ({} none, {h} always h, Heights
\* more than one), and whether every reading so far differed from the one
\* before it.
NoHistory == [stable |-> FALSE, readings |-> {}, jitter |-> TRUE]

\* The request has not been answered.
NoResponse == [code |-> 0]

GoodUrl == "https://www.google.com/maps/place/x"
BadUrl == "not a url"

\* pydantic's HttpUrl validation of the request body.
IsHttpUrl(u) == u = GoodUrl

\* A listing is the page behind the request's URL: whether it has a Menu tab
\* and the scroll heights its document can report.
NewTask(pc0, u, m, hs) ==
    [pc |-> pc0, url |-> u, menu |-> m, heights |-> hs,
     driver |-> "none", browser |-> "none", close_calls |-> 0,
     probe |-> "none", clicked |-> FALSE, exc |-> "none", cause |-> "none",
     result |-> <<>>, loc |-> Locals, hist |-> NoHistory]

\* One request, for any listing; the second request is never sent.
Init ==
    /\ \E u \in {GoodUrl, BadUrl}, m \in BOOLEAN :
          task = [r \in Reqs |-> IF r = 1 THEN NewTask("received", u, m, Heights)
                                 ELSE NewTask("idle", GoodUrl, FALSE, Heights)]
    /\ response = [r \in Reqs |-> NoResponse]
    /\ debug_screenshot = [writers |-> {}, content |-> 0]

\* Two requests in flight at once: the first for a listing whose document
\* keeps one height, the second for a listing without a Menu tab.
InitConc ==
    /\ \E u \in {GoodUrl, BadUrl}, m \in BOOLEAN :
          task = [r \in Reqs |-> IF r = 1 THEN NewTask("received", u, m, {1})
                                 ELSE NewTask("received", GoodUrl, FALSE, {1})]
    /\ response = [r \in Reqs |-> NoResponse]
    /\ debug_screenshot = [writers |-> {}, content |-> 0]

Set(r, t) == task' = [task EXCEPT ![r] = t]

\* An exception inside the try block: control goes to the handler of line 146.
\* No local is read once the handler is entered.
Raise(t, msg) ==
    [t EXCEPT !.pc = "except_close", !.exc = msg,
              !.cause = IF @ = "none" THEN msg ELSE @,
              !.loc = Locals, !.hist = NoHistory]

\* An exception that leaves scrape_menu_images: the async with block exits.
Propagate(t, msg) ==
    [t EXCEPT !.pc = "raised", !.exc = msg,
              !.cause = IF @ = "none" THEN msg ELSE @,
              !.driver = IF @ = "running" THEN "stopped" ELSE @,
              !.loc = Locals, !.hist = NoHistory]

\* A plain awaited step inside the try block: it succeeds or raises.
Await(r, at, next, msg) ==
    /\ task[r].pc = at
    /\ \E ok \in BOOLEAN :
          Set(r, IF ok THEN [task[r] EXCEPT !.pc = next] ELSE Raise(task[r], msg))
    /\ UNCHANGED <<response, debug_screenshot>>

\* ----------------------------------------------------------- the handler

\* FastAPI validates the body against ScrapeRequest before the handler runs.
Validate(r) ==
    /\ task[r].pc = "received"
    /\ IF IsHttpUrl(task[r].url)
       THEN /\ Set(r, [task[r] EXCEPT !.pc = "enter"])
            /\ UNCHANGED response
       ELSE /\ Set(r, [task[r] EXCEPT !.pc = "done"])
            /\ response' = [response EXCEPT ![r] = [code |-> 422]]
    /\ UNCHANGED debug_screenshot

\* ------------------------------------------------------ session acquisition

\* async with async_playwright() as p
EnterPlaywright(r) ==
    /\ task[r].pc = "enter"
    /\ \E ok \in BOOLEAN :
          Set(r, IF ok THEN [task[r] EXCEPT !.pc = "launch", !.driver = "running"]
                 ELSE Propagate(task[r], "async_playwright"))
    /\ UNCHANGED <<response, debug_screenshot>>

\* browser = await p.chromium.launch(headless=True)
Launch(r) ==
    /\ task[r].pc = "launch"
    /\ \E ok \in BOOLEAN :
          Set(r, IF ok THEN [task[r] EXCEPT !.pc = "new_context", !.browser = "open"]
                 ELSE Propagate(task[r], "launch"))
    /\ UNCHANGED <<response, debug_screenshot>>

\* context = await browser.new_context(...): outside the try block.
NewContext(r) ==
    /\ task[r].pc = "new_context"
    /\ \E ok \in BOOLEAN :
          Set(r, IF ok THEN [task[r] EXCEPT !.pc = "new_page"]
                 ELSE Propagate(task[r], "new_context"))
    /\ UNCHANGED <<response, debug_screenshot>>

\* page = await context.new_page(): outside the try block.
NewPage(r) ==
    /\ task[r].pc = "new_page"
    /\ \E ok \in BOOLEAN :
          Set(r, IF ok THEN [task[r] EXCEPT !.pc = "goto"]
                 ELSE Propagate(task[r], "new_page"))
    /\ UNCHANGED <<response, debug_screenshot>>

\* ------------------------------------------------------ navigation, dialogs

\* await page.goto(url, wait_until="load", timeout=60000)
Goto(r) == Await(r, "goto", "settle", "goto")

\* await page.wait_for_timeout(5000)
Settle(r) == Await(r, "settle", "popup_visible", "wait_for_timeout")

\* if await accept_button.is_visible(timeout=2000): any exception of the
\* block is absorbed by the bare except.
PopupVisible(r) ==
    /\ task[r].pc = "popup_visible"
    /\ \E out \in {"visible", "hidden", "raise"} :
          Set(r, CASE out = "visible" -> [task[r] EXCEPT !.pc = "popup_click"]
                   [] out = "hidden" -> [task[r] EXCEPT !.pc = "tab_probe", !.loc.sel = 1]
                   [] out = "raise" -> [task[r] EXCEPT !.pc = "tab_probe", !.loc.sel = 1])
    /\ UNCHANGED <<response, debug_screenshot>>

\* await accept_button.click()
PopupClick(r) ==
    /\ task[r].pc = "popup_click"
    /\ \E ok \in BOOLEAN :
          Set(r, IF ok THEN [task[r] EXCEPT !.pc = "popup_wait"]
                 ELSE [task[r] EXCEPT !.pc = "tab_probe", !.loc.sel = 1])
    /\ UNCHANGED <<response, debug_screenshot>>

\* await page.wait_for_timeout(1000)
PopupWait(r) ==
    /\ task[r].pc = "popup_wait"
    /\ \E ok \in BOOLEAN :
          Set(r, [task[r] EXCEPT !.pc = "tab_probe", !.loc.sel = 1])
    /\ UNCHANGED <<response, debug_screenshot>>

\* ---------------------------------------------------------- Menu tab locator

\* What is_visible can answer for a Menu tab locator: a listing without a
\* Menu tab never shows one; the call may raise (a strict mode violation).
Visibility(t) == IF t.menu THEN {"visible", "hidden", "raise"} ELSE {"hidden", "raise"}

\* One iteration of  for selector_type, selector, *kwargs in selectors:
\* menu_tab is bound to the locator of strategy sel; visible breaks, hidden
\* and raise go on to the next strategy.
TabProbe(r) ==
    /\ task[r].pc = "tab_probe"
    /\ \E out \in Visibility(task[r]) :
          Set(r, IF out = "visible"
                 THEN [task[r] EXCEPT !.pc = "recheck", !.probe = "found"]
                 ELSE IF task[r].loc.sel < Len(selectors)
                      THEN [task[r] EXCEPT !.loc.sel = @ + 1]
                      ELSE [task[r] EXCEPT !.pc = "recheck", !.probe = "not_found"])
    /\ UNCHANGED <<response, debug_screenshot>>

\* if not menu_tab or not await menu_tab.is_visible(timeout=2000):
\* menu_tab is the locator of the last strategy tried, never None.
Recheck(r) ==
    /\ task[r].pc = "recheck"
    /\ \E out \in Visibility(task[r]) :
          Set(r, CASE out = "visible" -> [task[r] EXCEPT !.pc = "click"]
                   [] out = "hidden" -> [task[r] EXCEPT !.pc = "screenshot"]
                   [] out = "raise" -> Raise(task[r], "is_visible"))
    /\ UNCHANGED <<response, debug_screenshot>>

\* await page.screenshot(path="debug_screenshot.png"): the path is relative
\* to the process's working directory, the same for every request.
Screenshot(r) ==
    /\ task[r].pc = "screenshot"
    /\ \E ok \in BOOLEAN :
          IF ok
          THEN /\ Set(r, [task[r] EXCEPT !.pc = "list_tabs"])
               /\ debug_screenshot' = [writers |-> debug_screenshot.writers \cup {r},
                                       content |-> r]
          ELSE /\ Set(r, Raise(task[r], "screenshot"))
               /\ UNCHANGED debug_screenshot
    /\ UNCHANGED response

\* all_tabs = await page.evaluate(...)
ListTabs(r) == Await(r, "list_tabs", "close_not_found", "evaluate")

\* browser.close() has run: the async with block exits and the call returns.
Return(t, urls) ==
    [t EXCEPT !.pc = "returned", !.browser = "closed", !.close_calls = @ + 1,
              !.driver = "stopped", !.result = urls, !.loc = Locals,
              !.hist = NoHistory]

\* await browser.close(); return []
CloseNotFound(r) ==
    /\ task[r].pc = "close_not_found"
    /\ \E ok \in BOOLEAN :
          Set(r, IF ok THEN Return(task[r], <<>>)
                 ELSE Raise([task[r] EXCEPT !.close_calls = @ + 1], "close"))
    /\ UNCHANGED <<response, debug_screenshot>>

\* await menu_tab.click()
Click(r) ==
    /\ task[r].pc = "click"
    /\ \E ok \in BOOLEAN :
          Set(r, IF ok THEN [task[r] EXCEPT !.pc = "menu_wait", !.clicked = TRUE]
                 ELSE Raise(task[r], "click"))
    /\ UNCHANGED <<response, debug_screenshot>>

\* await page.wait_for_timeout(4000); last_height = 0; unchanged_count = 0
MenuWait(r) ==
    /\ task[r].pc = "menu_wait"
    /\ \E ok \in BOOLEAN :
          Set(r, IF ok
                 THEN [task[r] EXCEPT !.pc = "read_current", !.loc.scroll_attempt = 0,
                                      !.loc.last_height = 0, !.loc.unchanged_count = 0]
                 ELSE Raise(task[r], "wait_for_timeout"))
    /\ UNCHANGED <<response, debug_screenshot>>

\* ------------------------------------------------------- lazy-load scrolling

\* Mutant: the post-scroll height is compared with this iteration's
\* pre-scroll reading.
ComparePreScroll(last, uc, cur, nh) ==
    IF nh = cur
    THEN [last_height |-> last, unchanged_count |-> uc + 1, brk |-> uc + 1 >= 2]
    ELSE [last_height |-> nh, unchanged_count |-> 0, brk |-> FALSE]

\* if new_height == last_height: unchanged_count += 1; break at 2
\* else: unchanged_count = 0; last_height = new_height
Compare(last, uc, cur, nh) ==
    IF nh = last
    THEN [last_height |-> last, unchanged_count |-> uc + 1, brk |-> uc + 1 >= 2]
    ELSE [last_height |-> nh, unchanged_count |-> 0, brk |-> FALSE]

\* Mutant: the loop runs one iteration beyond the limit.
LoopExhaustedLate(attempt) == attempt >= max_scrolls

\* for scroll_attempt in range(max_scrolls): no iteration is left.
LoopExhausted(attempt) == attempt + 1 >= max_scrolls

\* The history after reading height h, the reading before it being prev.
Observe(hist, prev, h) ==
    [hist EXCEPT !.readings = IF @ \subseteq {h} THEN {h} ELSE Heights,
                 !.jitter = @ /\ (hist.readings = {} \/ prev # h)]

\* current_height = await page.evaluate("document.scrollingElement.scrollHeight")
ReadCurrent(r) ==
    /\ task[r].pc = "read_current"
    /\ \/ \E h \in task[r].heights :
             Set(r, [task[r] EXCEPT !.pc = "scroll_to", !.loc.current_height = h,
                                    !.hist = Observe(@, task[r].loc.new_height, h)])
       \/ Set(r, Raise(task[r], "evaluate"))
    /\ UNCHANGED <<response, debug_screenshot>>

\* await page.evaluate("window.scrollTo(0, document.scrollingElement.scrollHeight)")
ScrollTo(r) == Await(r, "scroll_to", "scroll_wait", "evaluate")

\* await page.wait_for_timeout(1500)
ScrollWait(r) == Await(r, "scroll_wait", "read_new", "wait_for_timeout")

\* new_height = await page.evaluate(...), then the comparison and the break.
ReadNew(r) ==
    /\ task[r].pc = "read_new"
    /\ \/ \E h \in task[r].heights :
             LET l == task[r].loc
                 c == Compare(l.last_height, l.unchanged_count, l.current_height, h)
             IN Set(r, [task[r] EXCEPT
                           !.pc = IF c.brk THEN "extract" ELSE "strip_count",
                           !.loc.new_height = h,
                           !.loc.last_height = c.last_height,
                           !.loc.unchanged_count = c.unchanged_count,
                           !.hist = [Observe(@, l.current_height, h) EXCEPT !.stable = c.brk]])
       \/ Set(r, Raise(task[r], "evaluate"))
    /\ UNCHANGED <<response, debug_screenshot>>

\* if await menu_section.count() > 0: await menu_section.first().evaluate(...)
\* Locator.first is a property (line 32 uses it as one): calling it raises
\* TypeError before anything is awaited. Otherwise the next iteration starts,
\* or the loop is exhausted.
StripCount(r) ==
    /\ task[r].pc = "strip_count"
    /\ \/ \E n \in {0, 1} :
             Set(r, IF n > 0 THEN Raise(task[r], "TypeError")
                    ELSE IF LoopExhausted(task[r].loc.scroll_attempt)
                         THEN [task[r] EXCEPT !.pc = "extract"]
                         ELSE [task[r] EXCEPT !.pc = "read_current",
                                              !.loc.scroll_attempt = @ + 1])
       \/ Set(r, Raise(task[r], "count"))
    /\ UNCHANGED <<response, debug_screenshot>>

\* -------------------------------------------------- extraction, filter, dedupe

\* image_urls = await page.evaluate(...); menu_images = [...]; seen = set();
\* unique_images = []. No scroll local is read after the loop.
Extract(r) ==
    /\ task[r].pc = "extract"
    /\ \/ \E raw \in SeqsUpTo(RawSrcs, MaxImgs) :
             Set(r, [task[r] EXCEPT !.pc = "dedupe", !.hist = NoHistory,
                        !.loc = [Locals EXCEPT !.menu_images = MenuFilter(JsFilter(raw))]])
       \/ Set(r, Raise(task[r], "evaluate"))
    /\ UNCHANGED <<response, debug_screenshot>>

\* for url in menu_images: one iteration, or the end of the loop.
DedupeLoop(r) ==
    /\ task[r].pc = "dedupe"
    /\ LET l == task[r].loc
       IN IF l.di < Len(l.menu_images)
          THEN LET st == DedupeStep(l.seen, l.unique_images, l.menu_images[l.di + 1])
               IN Set(r, [task[r] EXCEPT !.loc.di = @ + 1, !.loc.seen = st.seen,
                                         !.loc.unique_images = st.unique_images])
          ELSE Set(r, [task[r] EXCEPT !.pc = "close_ok"])
    /\ UNCHANGED <<response, debug_screenshot>>

\* await browser.close(); return unique_images
CloseOk(r) ==
    /\ task[r].pc = "close_ok"
    /\ \E ok \in BOOLEAN :
          Set(r, IF ok THEN Return(task[r], task[r].loc.unique_images)
                 ELSE Raise([task[r] EXCEPT !.close_calls = @ + 1], "close"))
    /\ UNCHANGED <<response, debug_screenshot>>

\* except Exception as e: print; await browser.close(); raise
\* A close that raises replaces the exception being handled.
ExceptClose(r) ==
    /\ task[r].pc = "except_close"
    /\ \E ok \in BOOLEAN :
          LET t == [task[r] EXCEPT !.close_calls = @ + 1]
          IN Set(r, IF ok THEN Propagate([t EXCEPT !.browser = "closed"], t.exc)
                    ELSE Propagate(t, "close"))
    /\ UNCHANGED <<response, debug_screenshot>>

\* ------------------------------------------------------------- the response

\* Mutant: the status does not look at the list.
StatusAlwaysOk(urls) == "ok"

\* status = "ok"; if len(urls) == 0: status = "no_menu_found"
StatusOf(urls) == IF Len(urls) = 0 THEN "no_menu_found" ELSE "ok"

\* Mutant: the response is built with an empty list.
ScrapeResponseNoUrls(st, u, urls) ==
    [code |-> 200, status |-> st, place_url |-> u, menu_image_urls |-> <<>>]

\* return ScrapeResponse(status=status, place_url=str(req.url), menu_image_urls=urls)
ScrapeResponse(st, u, urls) ==
    [code |-> 200, status |-> st, place_url |-> u, menu_image_urls |-> urls]

\* raise HTTPException(status_code=500, detail=f"Scrape failed: {str(e)}")
HTTPException(e) == [code |-> 500, detail |-> <<"Scrape failed: ", e>>]

\* The handler after scrape_menu_images returned or raised.
Respond(r) ==
    /\ task[r].pc \in {"returned", "raised"}
    /\ response' = [response EXCEPT ![r] =
          IF task[r].pc = "returned"
          THEN ScrapeResponse(StatusOf(task[r].result), task[r].url, task[r].result)
          ELSE HTTPException(task[r].exc)]
    /\ Set(r, [task[r] EXCEPT !.pc = "done"])
    /\ UNCHANGED debug_screenshot

\* ------------------------------------------------------------ specification

Step(r) ==
    \/ Validate(r)
    \/ EnterPlaywright(r)
    \/ Launch(r)
    \/ NewContext(r)
    \/ NewPage(r)
    \/ Goto(r)
    \/ Settle(r)
    \/ PopupVisible(r)
    \/ PopupClick(r)
    \/ PopupWait(r)
    \/ TabProbe(r)
    \/ Recheck(r)
    \/ Screenshot(r)
    \/ ListTabs(r)
    \/ CloseNotFound(r)
    \/ Click(r)
    \/ MenuWait(r)
    \/ ReadCurrent(r)
    \/ ScrollTo(r)
    \/ ScrollWait(r)
    \/ ReadNew(r)
    \/ StripCount(r)
    \/ Extract(r)
    \/ DedupeLoop(r)
    \/ CloseOk(r)
    \/ ExceptClose(r)
    \/ Respond(r)

Next == \E r \in Reqs : Step(r)

Spec == Init /\ [][Next]_vars

\* Two concurrent requests, interleaved at every awaited operation.
ConcSpec == InitConc /\ [][Next]_vars

\* ---------------------------------------------------------------- properties

\* scrape_menu_images has returned or raised.
Exited(r) == task[r].pc \in {"returned", "raised", "done"} /\ IsHttpUrl(task[r].url)

\* scrape_menu_images returned a list and the handler has answered.
Answered(r) == task[r].pc = "done" /\ IsHttpUrl(task[r].url)

ReturnedAndAnswered(r) == Answered(r) /\ task[r].exc = "none"

\* C1: whenever the browser was launched, browser.close() has been invoked by
\* the time scrape_menu_images returns or raises, on every exit path.
C1_Claim ==
    \A r \in Reqs :
        (Exited(r) /\ task[r].browser # "none") => task[r].close_calls >= 1

\* C2: when no locator strategy yields a visible Menu tab, the call returns an
\* empty list and the request is answered 200 no_menu_found with no URLs,
\* whatever the diagnostic steps do.
C2_Claim ==
    \A r \in Reqs :
        (Exited(r) /\ task[r].probe = "not_found") =>
            /\ task[r].pc # "raised"
            /\ task[r].result = <<>>
            /\ response[r] # NoResponse =>
                  /\ response[r].code = 200
                  /\ response[r].status = "no_menu_found"
                  /\ response[r].menu_image_urls = <<>>

\* C3: when the pipeline completes without raising, the response is the
\* record of status, place_url and menu_image_urls, the status is
\* no_menu_found exactly when the list is empty and ok exactly when it is
\* not, and the list is the one scrape_menu_images returned.
C3_Theorem ==
    \A r \in Reqs :
        ReturnedAndAnswered(r) =>
            /\ DOMAIN response[r] = {"code", "status", "place_url", "menu_image_urls"}
            /\ response[r].code = 200
            /\ response[r].menu_image_urls = task[r].result
            /\ response[r].status = "no_menu_found" <=> response[r].menu_image_urls = <<>>
            /\ response[r].status = "ok" <=> response[r].menu_image_urls # <<>>

C3_Witness ==
    \E r \in Reqs :
        /\ ReturnedAndAnswered(r)
        /\ response[r].status = "ok"
        /\ Len(response[r].menu_image_urls) >= 2

\* C4 as claimed: the Menu tab was clicked and no URL survived: the response
\* is 200 with an empty list and status ok.
C4_Claim ==
    \A r \in Reqs :
        (ReturnedAndAnswered(r) /\ task[r].clicked /\ task[r].result = <<>>) =>
            /\ response[r].code = 200
            /\ response[r].menu_image_urls = <<>>
            /\ response[r].status = "ok"

\* C4 amended: the Menu tab was clicked, no URL survived and the call
\* returned: the response is 200 with an empty list and status
\* no_menu_found, the status of a listing without a Menu tab.
C4_Amended ==
    \A r \in Reqs :
        (ReturnedAndAnswered(r) /\ task[r].clicked /\ task[r].result = <<>>) =>
            /\ response[r].code = 200
            /\ response[r].menu_image_urls = <<>>
            /\ response[r].status = "no_menu_found"

C4_Witness ==
    \E r \in Reqs :
        /\ ReturnedAndAnswered(r)
        /\ task[r].clicked
        /\ task[r].result = <<>>
        /\ response[r].code = 200

\* C7: no URL whose host is outside googleusercontent.com and googleapis.com
\* is in the list scrape_menu_images builds and returns.
C7_Claim ==
    \A r \in Reqs :
        /\ \A i \in DOMAIN task[r].loc.unique_images :
              RecognizedHost(task[r].loc.unique_images[i])
        /\ \A i \in DOMAIN task[r].result : RecognizedHost(task[r].result[i])

\* C8: a failure of an operation after the launch is re-raised only after
\* browser.close() was attempted, and the request is answered 500 with the
\* detail "Scrape failed: " followed by that failure's description.
C8_Claim ==
    \A r \in Reqs :
        (Exited(r) /\ task[r].browser # "none" /\ task[r].cause # "none") =>
            /\ task[r].close_calls >= 1
            /\ response[r] # NoResponse => response[r] = HTTPException(task[r].cause)

\* C9: concurrent requests share no resource: nothing is written by more than
\* one request, and what a request wrote is still what it wrote.
C9_Claim ==
    /\ Cardinality(debug_screenshot.writers) <= 1
    /\ \A r \in debug_screenshot.writers : debug_screenshot.content = r

InLoop(r) ==
    task[r].pc \in {"read_current", "scroll_to", "scroll_wait", "read_new", "strip_count"}

\* The 20th iteration ends: no operation raised and the break was not taken.
CapReached(r) ==
    /\ task[r].pc = "strip_count"
    /\ task[r].loc.scroll_attempt = max_scrolls - 1
    /\ task'[r].pc # "strip_count"
    /\ task'[r].exc = "none"

\* The position of the task in the scroll loop: five awaited operations an
\* iteration.
LoopPosition(t) ==
    5 * t.loc.scroll_attempt +
        CASE t.pc = "read_current" -> 0
          [] t.pc = "scroll_to" -> 1
          [] t.pc = "scroll_wait" -> 2
          [] t.pc = "read_new" -> 3
          [] t.pc = "strip_count" -> 4

\* C5: the scroll loop ends within max_scrolls iterations whatever heights
\* are read: every step in the loop advances it and no step starts an
\* iteration beyond the limit; the loop is left without its break only at
\* the limit, and leaving it there is no error: control is at the image
\* extraction.
C5_Theorem ==
    /\ [](\A r \in Reqs : task[r].loc.scroll_attempt < max_scrolls)
    /\ [][\A r \in Reqs :
            /\ CapReached(r) => task'[r].pc = "extract" /\ task'[r].cause = "none"
            /\ (InLoop(r) /\ task'[r].pc = "extract" /\ ~task'[r].hist.stable)
                  => task[r].loc.scroll_attempt = max_scrolls - 1
            /\ (InLoop(r) /\ InLoop(r)' /\ task'[r] # task[r])
                  => LoopPosition(task'[r]) > LoopPosition(task[r])]_vars

\* The limit was reached by a page whose height changed at every reading.
C5_Witness ==
    \E r \in Reqs :
        /\ task[r].pc = "extract"
        /\ task[r].loc.scroll_attempt = max_scrolls - 1
        /\ ~task[r].hist.stable
        /\ task[r].hist.jitter
        /\ task[r].cause = "none"

ToSet(s) == {s[i] : i \in DOMAIN s}

NoDuplicates(s) == \A i, j \in DOMAIN s : s[i] = s[j] => i = j

\* s is t with some positions removed.
RECURSIVE IsSubsequence(_, _)
IsSubsequence(s, t) ==
    IF s = <<>> THEN TRUE
    ELSE IF t = <<>> THEN FALSE
    ELSE IF Head(s) = Head(t) THEN IsSubsequence(Tail(s), Tail(t))
    ELSE IsSubsequence(s, Tail(t))

\* The position of the first occurrence of x in s.
FirstIndex(s, x) == CHOOSE i \in DOMAIN s : s[i] = x /\ \A j \in 1..(i - 1) : s[j] # x

\* s lists every element of t once, in the order of first occurrence in t.
FirstOccurrenceOrder(s, t) ==
    /\ ToSet(s) = ToSet(t)
    /\ NoDuplicates(s)
    /\ \A i, j \in DOMAIN s : i < j => FirstIndex(t, s[i]) < FirstIndex(t, s[j])

\* C6: at every step of the dedupe loop the list and the seen set hold the
\* same elements, the list has each URL of the consumed prefix once in the
\* order of first occurrence and is a subsequence of the input; the finished
\* output is a fixed point of the step: dedupe(dedupe(L)) = dedupe(L).
C6_Theorem ==
    \A r \in Reqs :
        task[r].pc \in {"dedupe", "close_ok"} =>
            LET l == task[r].loc
                consumed == SubSeq(l.menu_images, 1, l.di)
            IN /\ ToSet(l.unique_images) = l.seen
               /\ FirstOccurrenceOrder(l.unique_images, consumed)
               /\ IsSubsequence(l.unique_images, l.menu_images)
               /\ task[r].pc = "close_ok" =>
                     /\ l.di = Len(l.menu_images)
                     /\ Dedupe(l.unique_images) = l.unique_images

\* The loop has finished on a list with a repeated URL between two others.
C6_Witness ==
    \E r \in Reqs :
        /\ task[r].pc = "close_ok"
        /\ Len(task[r].loc.menu_images) = 3
        /\ Len(task[r].loc.unique_images) = 2
        /\ task[r].loc.menu_images[1] = task[r].loc.menu_images[3]

\* The comparison of one iteration has just run.
Compared(r) ==
    /\ task[r].pc = "read_new"
    /\ task'[r].pc \in {"strip_count", "extract"}

\* The loop left by its break after reading one and the same height throughout.
StableOnConstantPage(r) ==
    /\ task[r].pc = "extract"
    /\ task[r].hist.stable
    /\ Cardinality(task[r].hist.readings) = 1

Iterations(r) == task[r].loc.scroll_attempt + 1

\* C10 as claimed: the post-scroll height is compared with the iteration's
\* pre-scroll reading; a page of constant height is stable after 2 iterations.
C10_Claim ==
    /\ [][\A r \in Reqs : Compared(r) =>
            LET l == task[r].loc
                n == task'[r].loc
            IN /\ IF n.new_height = l.current_height
                  THEN n.unchanged_count = l.unchanged_count + 1
                  ELSE n.unchanged_count = 0 /\ n.last_height = n.new_height
               /\ task'[r].pc = "extract" <=> n.unchanged_count = 2]_vars
    /\ [](\A r \in Reqs : StableOnConstantPage(r) => Iterations(r) = 2)

\* C10 amended: the post-scroll height is compared with last_height, the
\* height recorded by an earlier iteration (0 at first); the break is taken
\* exactly when unchanged_count reaches 2; a page of constant height is
\* stable after 3 iterations, after 2 when that height is 0.
C10_Amended ==
    /\ [][\A r \in Reqs : Compared(r) =>
            LET l == task[r].loc
                n == task'[r].loc
            IN /\ IF n.new_height = l.last_height
                  THEN n.unchanged_count = l.unchanged_count + 1 /\ n.last_height = l.last_height
                  ELSE n.unchanged_count = 0 /\ n.last_height = n.new_height
               /\ task'[r].pc = "extract" <=> n.unchanged_count = 2]_vars
    /\ [](\A r \in Reqs : StableOnConstantPage(r) =>
            Iterations(r) = IF task[r].hist.readings = {0} THEN 2 ELSE 3)

C10_Witness ==
    \E r \in Reqs :
        /\ StableOnConstantPage(r)
        /\ task[r].hist.readings = {1}
        /\ Iterations(r) = 3

====
